---- MODULE Spec2Model ----
(***************************************************************************)
(* AAYURCURE clinic site, src/main.ts: the field validators, the           *)
(* appointment form's submission flow, the toast notification with its     *)
(* auto-hide timers, the contact-options overlay, the FAQ accordion, the   *)
(* mobile menu, the router, the mobile call-to-action bar and the card     *)
(* animations.                                                             *)
(*                                                                         *)
(* A string is a sequence of one-character strings (messages shown to the  *)
(* user, ids and class names, which the code only compares, are TLA+       *)
(* strings).  A date input's value is <<>> (empty) or <<d>>, d the day     *)
(* number of the calendar date picked (days since 1970-01-01).  Instants   *)
(* are minutes since the epoch, in UTC.                                    *)
(***************************************************************************)
EXTENDS Integers, Sequences, FiniteSets, TLC

VARIABLES
    now,        \* the clock: minutes since the epoch (UTC)
    tz,         \* the browser's offset from UTC in minutes (local = UTC + tz)
    call,       \* the validator call made last: [fn, arg, today]
    ret,        \* what that call returned
    dom,        \* the elements the page markup provides
    form,       \* the form fields' current values
    errText,    \* textContent of each field's error element
    errClass,   \* whether each field's input carries the class 'error'
    focus,      \* the element that has focus
    toast,      \* [shown, message, background]
    timers,     \* remaining delays (ms) of the pending auto-hide timers
    overlays,   \* the contact-options overlays created so far
    thrown,     \* whether the event handled last raised an exception
    faq,        \* per FAQ item: [expanded, maxHeight]
    menu,       \* class 'active' on [navMenu, navToggle]
    router,     \* [hash, history, active, scrollTo]
    cta,        \* [lastScrollY, scrollY, width, display, transform]
    anim,       \* per animated card: [observed, animation]
    steps       \* the events a run may still handle (-1: any number)

vars == <<now, tz, call, ret, dom, form, errText, errClass, focus, toast,
          timers, overlays, thrown, faq, menu, router, cta, anim, steps>>

valVars  == <<call, ret>>
formVars == <<form, errText, errClass, focus, overlays>>
toastVars == <<toast, timers>>

\* One more event is handled
Spend == IF steps = -1 THEN UNCHANGED steps
         ELSE steps > 0 /\ steps' = steps - 1

----------------------------------------------------------------------------
(* Bounds of the model *)

MaxNameLen == 3       \* names tried: every string up to this length
MaxPhoneExtra == 3    \* phones tried: up to this many characters around 8 digits
MaxDay == 11          \* dates tried: day numbers 0..MaxDay
MaxTimers == 2        \* pending auto-hide timers
MaxOverlays == 1      \* overlays not yet disposed of

----------------------------------------------------------------------------
(* Characters *)

Lower == {"a","b","c","d","e","f","g","h","i","j","k","l","m",
          "n","o","p","q","r","s","t","u","v","w","x","y","z"}
Upper == {"A","B","C","D","E","F","G","H","I","J","K","L","M",
          "N","O","P","Q","R","S","T","U","V","W","X","Y","Z"}
Digits == {"0","1","2","3","4","5","6","7","8","9"}
Whitespace == {" ", "\t", "\n"}

\* Every sequence over chars of length at most n.
RECURSIVE Strings(_, _)
Strings(chars, n) ==
    IF n = 0 THEN {<< >>}
    ELSE LET shorter == Strings(chars, n - 1)
         IN  shorter \cup {Append(s, c) : s \in shorter, c \in chars}

\* String.prototype.trim
RECURSIVE trim(_)
trim(s) ==
    IF s = << >> THEN s
    ELSE IF Head(s) \in Whitespace THEN trim(Tail(s))
    ELSE IF s[Len(s)] \in Whitespace THEN trim(SubSeq(s, 1, Len(s) - 1))
    ELSE s

\* s.replace(/\D/g, '')
stripNonDigits(s) == SelectSeq(s, LAMBDA c : c \in Digits)

\* /^[a-zA-Z\s.]+$/.test(s)
NAME_REGEX(s) ==
    /\ Len(s) >= 1
    /\ \A i \in 1..Len(s) : s[i] \in Lower \cup Upper \cup Whitespace \cup {"."}

PHONE_REGEX_Wide(s) ==
    /\ Len(s) = 10
    /\ s[1] \in {"5", "6", "7", "8", "9"}
    /\ \A i \in 2..10 : s[i] \in Digits

\* The pattern with the flag g: a match leaves lastIndex at the end of the
\* string, and the next test, starting there, fails
PHONE_REGEX_Sticky(s) ==
    /\ ~(call.fn = "validatePhone" /\ ret = "")
    /\ Len(s) = 10
    /\ s[1] \in {"6", "7", "8", "9"}
    /\ \A i \in 2..10 : s[i] \in Digits

\* /^[6-9]\d{9}$/.test(s)
PHONE_REGEX(s) ==
    /\ Len(s) = 10
    /\ s[1] \in {"6", "7", "8", "9"}
    /\ \A i \in 2..10 : s[i] \in Digits

----------------------------------------------------------------------------
(* FormValidator *)

validateName_NoLength(name) ==
    LET trimmedName == trim(name) IN
    IF Len(trimmedName) = 0 THEN "Name is required"
    ELSE IF ~NAME_REGEX(trimmedName)
         THEN "Name can only contain letters, spaces, and periods"
    ELSE ""

validateName(name) ==
    LET trimmedName == trim(name) IN
    IF Len(trimmedName) = 0 THEN "Name is required"
    ELSE IF Len(trimmedName) < 2 THEN "Name must be at least 2 characters"
    ELSE IF ~NAME_REGEX(trimmedName)
         THEN "Name can only contain letters, spaces, and periods"
    ELSE ""

validatePhone(phone) ==
    LET cleanPhone == stripNonDigits(phone) IN
    IF Len(cleanPhone) = 0 THEN "Phone number is required"
    ELSE IF ~PHONE_REGEX(cleanPhone)
         THEN "Please enter a valid 10-digit Indian mobile number"
    ELSE ""

\* new Date("YYYY-MM-DD"): midnight UTC of that calendar date
DateParse(d) == d * 1440

\* new Date() followed by setHours(0, 0, 0, 0): local midnight, as an instant
LocalMidnight(t, offset) == ((t + offset) \div 1440) * 1440 - offset

\* Date.prototype.getDay: the weekday, in local time, of an instant
\* (0 = Sunday; 1970-01-01 was a Thursday)
getDay(t, offset) == (((t + offset) \div 1440) + 4) % 7

validateDate(dateString, t, offset) ==
    IF dateString = << >> THEN ""
    ELSE LET selectedDate == DateParse(dateString[1])
             today == LocalMidnight(t, offset)
         IN  IF selectedDate < today THEN "Please select a future date"
             ELSE IF getDay(selectedDate, offset) = 0
                  THEN "Sundays are by appointment only - please call to schedule"
             ELSE ""

----------------------------------------------------------------------------
(* The texts of the template literals, and the values the model types in *)

\* `Appointment Request from AAYURCURE Website\n\n`
EmailHeader ==
    << "A", "p", "p", "o", "i", "n", "t", "m", "e", "n", "t", " ", "R", "e",
       "q", "u", "e", "s", "t", " ", "f", "r", "o", "m", " ", "A", "A", "Y",
       "U", "R", "C", "U", "R", "E", " ", "W", "e", "b", "s", "i", "t", "e",
       "\n", "\n" >>

EmailNameLabel ==
    << "P", "a", "t", "i", "e", "n", "t", " ", "N", "a", "m", "e", ":", " " >>

EmailPhoneLabel ==
    << "P", "h", "o", "n", "e", " ", "N", "u", "m", "b", "e", "r", ":", " " >>

EmailServiceLabel ==
    << "S", "e", "r", "v", "i", "c", "e", " ", "R", "e", "q", "u", "i", "r",
       "e", "d", ":", " " >>

EmailDateLabel ==
    << "P", "r", "e", "f", "e", "r", "r", "e", "d", " ", "D", "a", "t", "e",
       ":", " " >>

EmailTimeLabel ==
    << "P", "r", "e", "f", "e", "r", "r", "e", "d", " ", "T", "i", "m", "e",
       ":", " " >>

\* `\nAdditional Information:\n`
EmailInfoLabel ==
    << "\n", "A", "d", "d", "i", "t", "i", "o", "n", "a", "l", " ", "I",
       "n", "f", "o", "r", "m", "a", "t", "i", "o", "n", ":", "\n" >>

\* `\n---\nSubmitted from: AAYURCURE Website`
EmailFooter ==
    << "\n", "-", "-", "-", "\n", "S", "u", "b", "m", "i", "t", "t", "e",
       "d", " ", "f", "r", "o", "m", ":", " ", "A", "A", "Y", "U", "R", "C",
       "U", "R", "E", " ", "W", "e", "b", "s", "i", "t", "e" >>

\* `Hello AAYURCURE, I'd like to book an appointment.\n\n`
WaHeader ==
    << "H", "e", "l", "l", "o", " ", "A", "A", "Y", "U", "R", "C", "U", "R",
       "E", ",", " ", "I", "'", "d", " ", "l", "i", "k", "e", " ", "t", "o",
       " ", "b", "o", "o", "k", " ", "a", "n", " ", "a", "p", "p", "o", "i",
       "n", "t", "m", "e", "n", "t", ".", "\n", "\n" >>

WaNameLabel ==
    << "N", "a", "m", "e", ":", " " >>

WaPhoneLabel ==
    << "P", "h", "o", "n", "e", ":", " " >>

WaServiceLabel ==
    << "S", "e", "r", "v", "i", "c", "e", ":", " " >>

WaDateLabel ==
    << "D", "a", "t", "e", ":", " " >>

WaTimeLabel ==
    << "T", "i", "m", "e", ":", " " >>

MailtoPrefix ==
    << "m", "a", "i", "l", "t", "o", ":", "?", "s", "u", "b", "j", "e", "c",
       "t", "=", "A", "p", "p", "o", "i", "n", "t", "m", "e", "n", "t", " ",
       "R", "e", "q", "u", "e", "s", "t", " ", "-", " ", "A", "A", "Y", "U",
       "R", "C", "U", "R", "E", "&", "b", "o", "d", "y", "=" >>

WhatsAppPrefix ==
    << "h", "t", "t", "p", "s", ":", "/", "/", "w", "a", ".", "m", "e", "/",
       "9", "1", "7", "3", "5", "9", "1", "7", "1", "0", "8", "1", "?", "t",
       "e", "x", "t", "=" >>

SvcConsultation ==
    << "c", "o", "n", "s", "u", "l", "t", "a", "t", "i", "o", "n" >>

\* a value the serviceNames table does not hold
SvcOther ==
    << "y", "o", "g", "a" >>

TimeMorning ==
    << "m", "o", "r", "n", "i", "n", "g" >>

\* a free-text message, and one that is blank
KneePain ==
    << "k", "n", "e", "e", " ", "p", "a", "i", "n" >>

BlankMessage ==
    << " ", "\n" >>

AshaRao ==
    << "A", "s", "h", "a", " ", "R", "a", "o" >>

JaneDoe ==
    << "J", "a", "n", "e", " ", "D", "o", "e" >>

Jane123 ==
    << "J", "a", "n", "e", "1", "2", "3" >>

Phone9876543210 ==
    << "9", "8", "7", "6", "5", "4", "3", "2", "1", "0" >>

Phone12345 ==
    << "1", "2", "3", "4", "5" >>

\* eight digits, to reach the lengths around ten
PhonePad ==
    << "1", "2", "3", "4", "5", "6", "7", "8" >>

\* serviceNames[key]; << >> stands for undefined
serviceNames(key) ==
    CASE key = << "c", "o", "n", "s", "u", "l", "t", "a", "t", "i",
                  "o", "n" >>
        -> << "G", "e", "n", "e", "r", "a", "l", " ", "C", "o", "n",
              "s", "u", "l", "t", "a", "t", "i", "o", "n" >>
      [] key = << "k", "a", "n", "s", "y", "a", "-", "t", "h", "a",
                  "l", "i" >>
        -> << "K", "a", "n", "s", "y", "a", " ", "T", "h", "a", "l",
              "i", " ", "M", "a", "s", "s", "a", "g", "e" >>
      [] key = << "p", "a", "n", "c", "h", "k", "a", "r", "m", "a" >>
        -> << "P", "a", "i", "n", " ", "M", "a", "n", "a", "g", "e",
              "m", "e", "n", "t", " ", "&", " ", "P", "a", "n", "c",
              "h", "k", "a", "r", "m", "a" >>
      [] key = << "h", "a", "i", "r", "-", "s", "k", "i", "n" >>
        -> << "H", "a", "i", "r", " ", "a", "n", "d", " ", "S", "k",
              "i", "n", " ", "C", "a", "r", "e" >>
      [] key = << "v", "i", "d", "d", "h", "k", "a", "r", "m", "a" >>
        -> << "V", "i", "d", "d", "h", "k", "a", "r", "m", "a", " ",
              "(", "N", "e", "e", "d", "l", "e", " ", "T", "h", "e",
              "r", "a", "p", "y", ")" >>
      [] key = << "c", "u", "p", "p", "i", "n", "g" >>
        -> << "C", "u", "p", "p", "i", "n", "g", " ", "T", "h", "e",
              "r", "a", "p", "y" >>
      [] key = << "w", "e", "i", "g", "h", "t", "-", "m", "a", "n",
                  "a", "g", "e", "m", "e", "n", "t" >>
        -> << "W", "e", "i", "g", "h", "t", " ", "M", "a", "n", "a",
              "g", "e", "m", "e", "n", "t" >>
      [] key = << "s", "w", "a", "r", "n", "a", "p", "r", "a", "s",
                  "h" >>
        -> << "S", "w", "a", "r", "n", "a", "p", "r", "a", "s", "h",
              " ", "f", "o", "r", " ", "K", "i", "d", "s" >>
      [] OTHER -> << >>

\* timeSlots[key]; << >> stands for undefined
timeSlots(key) ==
    CASE key = << "m", "o", "r", "n", "i", "n", "g" >>
        -> << "M", "o", "r", "n", "i", "n", "g", " ", "(", "9", ":",
              "3", "0", " ", "A", "M", " ", "-", " ", "1", ":", "0",
              "0", " ", "P", "M", ")" >>
      [] key = << "e", "v", "e", "n", "i", "n", "g" >>
        -> << "E", "v", "e", "n", "i", "n", "g", " ", "(", "4", ":",
              "3", "0", " ", "P", "M", " ", "-", " ", "7", ":", "3",
              "0", " ", "P", "M", ")" >>
      [] OTHER -> << >>

\* the weekday names of the 'en-IN' locale, indexed by getDay
WeekdayName(n) ==
    CASE n = 0 -> << "S", "u", "n", "d", "a", "y" >>
      [] n = 1 -> << "M", "o", "n", "d", "a", "y" >>
      [] n = 2 -> << "T", "u", "e", "s", "d", "a", "y" >>
      [] n = 3 -> << "W", "e", "d", "n", "e", "s", "d", "a", "y" >>
      [] n = 4 -> << "T", "h", "u", "r", "s", "d", "a", "y" >>
      [] n = 5 -> << "F", "r", "i", "d", "a", "y" >>
      [] n = 6 -> << "S", "a", "t", "u", "r", "d", "a", "y" >>


----------------------------------------------------------------------------
(* Message composition *)

\* Whether sub occurs in s as a contiguous run
Contains(s, sub) ==
    \E i \in 0..(Len(s) - Len(sub)) : SubSeq(s, i + 1, i + Len(sub)) = sub

\* The characters encodeURIComponent leaves as they are
Unreserved == Lower \cup Upper \cup Digits \cup
              {"-", "_", ".", "!", "~", "*", "'", "(", ")"}

\* The two hexadecimal digits of a character's UTF-8 byte
HexCode(c) ==
    CASE c = " "  -> << "2", "0" >>
      [] c = "\n" -> << "0", "A" >>
      [] c = "\t" -> << "0", "9" >>
      [] c = "#"  -> << "2", "3" >>
      [] c = "%"  -> << "2", "5" >>
      [] c = "&"  -> << "2", "6" >>
      [] c = "+"  -> << "2", "B" >>
      [] c = ","  -> << "2", "C" >>
      [] c = "/"  -> << "2", "F" >>
      [] c = ":"  -> << "3", "A" >>
      [] c = "="  -> << "3", "D" >>
      [] c = "?"  -> << "3", "F" >>
      [] c = "@"  -> << "4", "0" >>

encodeChar(c) == IF c \in Unreserved THEN << c >> ELSE << "%" >> \o HexCode(c)

\* encodeURIComponent: the characters' encodings, one after the other (the
\* string is split in halves to keep the recursion shallow)
RECURSIVE encodeURIComponent(_)
encodeURIComponent(s) ==
    IF Len(s) = 0 THEN << >>
    ELSE IF Len(s) = 1 THEN encodeChar(s[1])
    ELSE LET half == Len(s) \div 2
         IN  encodeURIComponent(SubSeq(s, 1, half))
             \o encodeURIComponent(SubSeq(s, half + 1, Len(s)))

\* The decimal digits of a natural number
RECURSIVE Decimal(_)
Decimal(n) ==
    LET digit == CASE n % 10 = 0 -> "0" [] n % 10 = 1 -> "1" [] n % 10 = 2 -> "2"
                   [] n % 10 = 3 -> "3" [] n % 10 = 4 -> "4" [] n % 10 = 5 -> "5"
                   [] n % 10 = 6 -> "6" [] n % 10 = 7 -> "7" [] n % 10 = 8 -> "8"
                   [] n % 10 = 9 -> "9"
    IN  IF n < 10 THEN << digit >> ELSE Append(Decimal(n \div 10), digit)

\* The text of a date input's value <<d>>: the calendar date, written here as
\* its day number
DateText(dateString) == Decimal(dateString[1])

\* date.toLocaleDateString('en-IN', {weekday, year, month, day}) of
\* new Date(dateString): the weekday and the calendar date of that instant in
\* local time
toLocaleDateString(dateString, offset) ==
    LET date == DateParse(dateString[1]) IN
    WeekdayName(getDay(date, offset)) \o << ",", " " >>
        \o Decimal((date + offset) \div 1440)

\* a || b on strings: b when a is empty or undefined
OrElse(a, b) == IF a = << >> THEN b ELSE a

generateEmailContent_Untrimmed(formData, offset) ==
    LET content ==
            EmailHeader
            \o EmailNameLabel \o formData.patientName \o << "\n" >>
            \o EmailPhoneLabel \o formData.phoneNumber \o << "\n" >>
            \o (IF formData.serviceType # << >>
                THEN EmailServiceLabel
                     \o OrElse(serviceNames(formData.serviceType), formData.serviceType)
                     \o << "\n" >>
                ELSE << >>)
            \o (IF formData.preferredDate # << >>
                THEN EmailDateLabel
                     \o toLocaleDateString(formData.preferredDate, offset)
                     \o << "\n" >>
                ELSE << >>)
            \o (IF formData.preferredTime # << >>
                THEN EmailTimeLabel
                     \o OrElse(timeSlots(formData.preferredTime), formData.preferredTime)
                     \o << "\n" >>
                ELSE << >>)
            \o (IF formData.message # << >>
                THEN EmailInfoLabel \o formData.message \o << "\n" >>
                ELSE << >>)
            \o EmailFooter
    IN  encodeURIComponent(content)

generateEmailContent(formData, offset) ==
    LET content ==
            EmailHeader
            \o EmailNameLabel \o formData.patientName \o << "\n" >>
            \o EmailPhoneLabel \o formData.phoneNumber \o << "\n" >>
            \o (IF formData.serviceType # << >>
                THEN EmailServiceLabel
                     \o OrElse(serviceNames(formData.serviceType), formData.serviceType)
                     \o << "\n" >>
                ELSE << >>)
            \o (IF formData.preferredDate # << >>
                THEN EmailDateLabel
                     \o toLocaleDateString(formData.preferredDate, offset)
                     \o << "\n" >>
                ELSE << >>)
            \o (IF formData.preferredTime # << >>
                THEN EmailTimeLabel
                     \o OrElse(timeSlots(formData.preferredTime), formData.preferredTime)
                     \o << "\n" >>
                ELSE << >>)
            \o (IF trim(formData.message) # << >>
                THEN EmailInfoLabel \o formData.message \o << "\n" >>
                ELSE << >>)
            \o EmailFooter
    IN  encodeURIComponent(content)

generateWhatsAppMessage_NoName(formData) ==
    encodeURIComponent(WaHeader \o WaPhoneLabel \o formData.phoneNumber \o << "\n" >>)

generateWhatsAppMessage(formData) ==
    LET message ==
            WaHeader
            \o WaNameLabel \o formData.patientName \o << "\n" >>
            \o WaPhoneLabel \o formData.phoneNumber \o << "\n" >>
            \o (IF formData.serviceType # << >>
                THEN WaServiceLabel \o formData.serviceType \o << "\n" >>
                ELSE << >>)
            \o (IF formData.preferredDate # << >>
                THEN WaDateLabel \o DateText(formData.preferredDate) \o << "\n" >>
                ELSE << >>)
            \o (IF formData.preferredTime # << >>
                THEN WaTimeLabel \o formData.preferredTime \o << "\n" >>
                ELSE << >>)
    IN  encodeURIComponent(message)

----------------------------------------------------------------------------
(* validateForm *)

Fields == {"patientName", "phoneNumber", "serviceType", "preferredDate",
           "preferredTime", "message"}

\* The fields validateForm checks, in the order it enters them into `errors`
ValidatedFields == << "patientName", "phoneNumber", "preferredDate" >>

validateForm_KeepEmpty(formData, t, offset) ==
    LET errors == << << "patientName", validateName(formData.patientName) >>,
                     << "phoneNumber", validatePhone(formData.phoneNumber) >>,
                     << "preferredDate",
                        validateDate(formData.preferredDate, t, offset) >> >>
    IN  [isValid |-> Len(errors) = 0, errors |-> errors]

\* `errors` once its empty messages are deleted: the <<field, message>> pairs
\* left, in Object.keys order
validateForm(formData, t, offset) ==
    LET all == << << "patientName", validateName(formData.patientName) >>,
                  << "phoneNumber", validatePhone(formData.phoneNumber) >>,
                  << "preferredDate",
                     validateDate(formData.preferredDate, t, offset) >> >>
        errors == SelectSeq(all, LAMBDA e : e[2] # "")
    IN  [isValid |-> Len(errors) = 0, errors |-> errors]

\* validation.errors[fieldName] || ''
ErrorOf(errors, fieldName) ==
    IF \E i \in 1..Len(errors) : errors[i][1] = fieldName
    THEN LET i == CHOOSE i \in 1..Len(errors) : errors[i][1] = fieldName
         IN  errors[i][2]
    ELSE ""

----------------------------------------------------------------------------
(* The page: the elements the markup may provide.  dom.ids holds the ids     *)
(* present, dom.answers the FAQ items that have a .faq-answer element,       *)
(* dom.sections the ids of the sections present.  An element that is present *)
(* carries the classes its role has in the page ('.error-message' on an      *)
(* error element, '.form-input' on an input).                                *)

NumFaq == 3           \* FAQ items of the page

FaqItems == 1..NumFaq

\* `${fieldName.replace(/([A-Z])/g, '$1').toLowerCase()}Error`: the replace
\* puts every capital back as it was, toLowerCase then lowers the whole name
ErrorId(fieldName) ==
    CASE fieldName = "patientName"   -> "patientnameError"
      [] fieldName = "phoneNumber"   -> "phonenumberError"
      [] fieldName = "preferredDate" -> "preferreddateError"

FieldIds == {"patientName", "phoneNumber", "preferredDate"}
ErrorIds == {ErrorId(f) : f \in FieldIds}

\* The nav links of the page: an in-page link '#target' or a link elsewhere
NavLinks == { [hash |-> TRUE,  target |-> "about"],
              [hash |-> TRUE,  target |-> "contact"],
              [hash |-> FALSE, target |-> "blog.html"] }
SectionIds == {"about", "contact"}

OptionalIds == {"toast", "toastMessage", "toastClose", "appointmentForm",
                "navToggle", "navMenu", "mobileCta"}

FullDom == [ids |-> OptionalIds \cup FieldIds \cup ErrorIds,
            answers |-> FaqItems,
            sections |-> SectionIds]

\* The pages tried: the full page, and the full page less one element
DomChoices ==
    {FullDom}
    \cup {[FullDom EXCEPT !.ids = @ \ {e}] : e \in OptionalIds}
    \cup {[FullDom EXCEPT !.answers = @ \ {i}] : i \in FaqItems}
    \cup {[FullDom EXCEPT !.sections = @ \ {s}] : s \in SectionIds}

\* DOMHelper.getElementById(id) is not null
Has(id) == id \in dom.ids

----------------------------------------------------------------------------
(* Initial states *)

NowDay == 5           \* the runs start on this day (UTC), a Tuesday
Nows == {NowDay * 1440 + m : m \in {30, 720, 1410}}
TzOffsets == {-300, 0, 330}

\* form.reset(): every field back to its default value, which is empty
FormDefaults == [f \in Fields |-> << >>]

InitClock == now \in Nows /\ tz \in TzOffsets

\* today: the clock and the zone a call read (new Date()), << >> if none
InitCalls == call = [fn |-> "none", arg |-> << >>, today |-> << >>] /\ ret = ""

----------------------------------------------------------------------------
(* The validators, called on their own *)

NameChars == {"J", "a", " ", ".", "1"}
NameInputs == Strings(NameChars, MaxNameLen)
              \cup {<< "A" >>, JaneDoe, Jane123, AshaRao}

PhoneChars == {"6", "5", "-"}
PhoneInputs ==
    LET short == Strings(PhoneChars, MaxPhoneExtra)
    IN  short \cup {s \o PhonePad : s \in short}
              \cup {PhonePad \o s : s \in short}
              \cup {Phone12345, Phone9876543210}

DateInputs == {<< >>} \cup {<< d >> : d \in 0..MaxDay}

CallValidateName ==
    /\ \E name \in NameInputs :
          /\ call' = [fn |-> "validateName", arg |-> name, today |-> << >>]
          /\ ret' = validateName(name)
    /\ Spend
    /\ UNCHANGED <<now, tz, anim, dom, formVars, toastVars, thrown, faq,
                   menu, router, cta>>

CallValidatePhone ==
    /\ \E phone \in PhoneInputs :
          /\ call' = [fn |-> "validatePhone", arg |-> phone,
                     today |-> << >>]
          /\ ret' = validatePhone(phone)
    /\ Spend
    /\ UNCHANGED <<now, tz, anim, dom, formVars, toastVars, thrown, faq,
                   menu, router, cta>>

CallValidateDate ==
    /\ \E dateString \in DateInputs :
          /\ call' = [fn |-> "validateDate", arg |-> dateString,
                     today |-> <<now, tz>>]
          /\ ret' = validateDate(dateString, now, tz)
    /\ Spend
    /\ UNCHANGED <<now, tz, anim, dom, formVars, toastVars, thrown, faq,
                   menu, router, cta>>

----------------------------------------------------------------------------
(* ToastManager *)

TickMs == 2500        \* the step in which the model lets time pass

NoToast == [shown |-> FALSE, message |-> "", background |-> ""]

\* options.duration || 5000; an absent duration is written 0
Duration(options) == IF options.duration = 0 THEN 5000 ELSE options.duration

ToastReady == Has("toast") /\ Has("toastMessage")

\* show, as far as the toast element goes
ShowToast(t, options) ==
    IF ~ToastReady THEN t
    ELSE [shown |-> TRUE,
          message |-> options.message,
          background |-> IF options.type = "error" THEN "var(--color-error)"
                         ELSE "var(--color-success)"]

ShowTimers_NoTimer(ts, options) == ts

\* show, as far as the timers go: setTimeout(() => this.hide(), duration)
ShowTimers(ts, options) ==
    IF ~ToastReady THEN ts ELSE Append(ts, Duration(options))

\* hide
HideToast(t) == IF Has("toast") THEN [t EXCEPT !.shown = FALSE] ELSE t

\* Room for the timer one more show would start
TimerRoom == ~ToastReady \/ Len(timers) < MaxTimers

RemoveAt(s, i) == SubSeq(s, 1, i - 1) \o SubSeq(s, i + 1, Len(s))

----------------------------------------------------------------------------
(* MobileNavigation: the handlers; its events come further down *)

NavReady == Has("navToggle") /\ Has("navMenu")

toggleMenu_MenuOnly(m) ==
    IF ~NavReady THEN m
    ELSE [navMenu |-> ~m.navMenu, navToggle |-> m.navToggle]

toggleMenu(m) ==
    IF ~NavReady THEN m
    ELSE [navMenu |-> ~m.navMenu, navToggle |-> ~m.navToggle]

closeMenu(m) ==
    IF ~NavReady THEN m ELSE [navMenu |-> FALSE, navToggle |-> FALSE]

\* The document's click listener, for a click that lands outside the menu and
\* outside the toggle button; initializeMobileNav registers it only when both
\* elements exist
DocumentClickOutside(m) == IF NavReady THEN closeMenu(m) ELSE m

----------------------------------------------------------------------------
(* AppointmentForm *)

FormReady == Has("appointmentForm")

formatPhoneInput_NoLimit(value) == stripNonDigits(value)

\* formatPhoneInput: the digits of the value, cut to ten
formatPhoneInput(value) ==
    LET digits == stripNonDigits(value)
    IN  IF Len(digits) > 10 THEN SubSeq(digits, 1, 10) ELSE digits

\* getFormData: the record of the six fields' values
getFormData == form

clearFormErrors_Nothing(text) == text

\* clearFormErrors, on the error elements' texts
clearFormErrors(text) ==
    [f \in FieldIds |-> IF Has(ErrorId(f)) THEN "" ELSE text[f]]

\* clearFormErrors, on the inputs' class 'error'
clearFormErrorClasses(class) ==
    [f \in FieldIds |-> IF Has(f) THEN FALSE ELSE class[f]]

displayErrors_FirstOnly(errors, text) ==
    [f \in FieldIds |->
        IF Len(errors) > 0 /\ errors[1][1] = f /\ Has(ErrorId(f))
        THEN errors[1][2] ELSE text[f]]

\* displayErrors, on the error elements' texts
displayErrors(errors, text) ==
    [f \in FieldIds |->
        IF ErrorOf(errors, f) # "" /\ Has(ErrorId(f))
        THEN ErrorOf(errors, f) ELSE text[f]]

\* displayErrors, on the inputs' class 'error'
displayErrorClasses(errors, class) ==
    [f \in FieldIds |->
        IF ErrorOf(errors, f) # "" /\ Has(f) THEN TRUE ELSE class[f]]

validateFieldText_AllFields(fieldName, formData, text) ==
    displayErrors(validateForm(formData, now, tz).errors, text)

\* validateField(fieldName), on the texts and on the classes
validateFieldText(fieldName, formData, text) ==
    LET validation == validateForm(formData, now, tz)
    IN  IF Has(ErrorId(fieldName)) /\ Has(fieldName)
        THEN [text EXCEPT ![fieldName] = ErrorOf(validation.errors, fieldName)]
        ELSE text

validateFieldClass(fieldName, formData, class) ==
    LET validation == validateForm(formData, now, tz)
    IN  IF Has(ErrorId(fieldName)) /\ Has(fieldName)
        THEN [class EXCEPT ![fieldName] =
                 ErrorOf(validation.errors, fieldName) # ""]
        ELSE class

mailtoLink(formData) == MailtoPrefix \o generateEmailContent(formData, tz)
whatsappLink(formData) == WhatsAppPrefix \o generateWhatsAppMessage(formData)

\* showContactOptions: the overlay appended to the body, with its two links
\* and its Escape listener registered on the document
showContactOptions(emailLink, waLink) ==
    Append(overlays, [attached |-> TRUE, escape |-> TRUE,
                      emailLink |-> emailLink, whatsappLink |-> waLink])

ErrorToast == [message |-> "Please fix the errors below", type |-> "error",
               duration |-> 0]
SuccessToast ==
    [message |-> "Appointment request prepared! Choose your preferred contact method.",
     type |-> "success", duration |-> 0]

handleSubmit_ResetAlways ==
    LET formData == getFormData
        validation == validateForm(formData, now, tz)
    IN
    /\ FormReady
    /\ TimerRoom
    /\ validation.isValid => Len(overlays) < MaxOverlays
    /\ errText' = displayErrors(validation.errors, clearFormErrors(errText))
    /\ errClass' = displayErrorClasses(validation.errors,
                                       clearFormErrorClasses(errClass))
    /\ focus' = IF ~validation.isValid /\ Has(validation.errors[1][1])
                THEN validation.errors[1][1] ELSE focus
    /\ toast' = ShowToast(toast, IF validation.isValid THEN SuccessToast
                                 ELSE ErrorToast)
    /\ timers' = ShowTimers(timers, ErrorToast)
    /\ overlays' = IF validation.isValid
                   THEN showContactOptions(mailtoLink(formData),
                                           whatsappLink(formData))
                   ELSE overlays
    /\ form' = FormDefaults
    /\ thrown' = FALSE
    /\ Spend
    /\ UNCHANGED <<now, tz, anim, valVars, dom, faq, menu, router, cta>>

\* handleSubmit, run by the form's submit event
handleSubmit ==
    LET formData == getFormData
        validation == validateForm(formData, now, tz)
    IN
    /\ FormReady
    /\ TimerRoom
    /\ validation.isValid => Len(overlays) < MaxOverlays
    /\ IF ~validation.isValid
       THEN /\ errText' = displayErrors(validation.errors,
                                        clearFormErrors(errText))
            /\ errClass' = displayErrorClasses(validation.errors,
                                               clearFormErrorClasses(errClass))
            /\ focus' = IF Has(validation.errors[1][1])
                        THEN validation.errors[1][1] ELSE focus
            /\ toast' = ShowToast(toast, ErrorToast)
            /\ timers' = ShowTimers(timers, ErrorToast)
            /\ UNCHANGED <<form, overlays>>
       ELSE /\ errText' = clearFormErrors(errText)
            /\ errClass' = clearFormErrorClasses(errClass)
            /\ toast' = ShowToast(toast, SuccessToast)
            /\ timers' = ShowTimers(timers, SuccessToast)
            /\ overlays' = showContactOptions(mailtoLink(formData),
                                              whatsappLink(formData))
            /\ form' = FormDefaults
            /\ UNCHANGED focus
    /\ thrown' = FALSE
    /\ Spend
    /\ UNCHANGED <<now, tz, anim, valVars, dom, faq, menu, router, cta>>

\* The user edits one field.  An edit of the phone field fires its input
\* event (formatPhoneInput); a new date fires the date input's change event
\* (validateField).
EditField(fieldName, value) ==
    LET edited == [form EXCEPT ![fieldName] =
                      IF fieldName = "phoneNumber" /\ Has("phoneNumber")
                      THEN formatPhoneInput(value) ELSE value]
        validates == fieldName = "preferredDate" /\ Has("preferredDate")
    IN
    /\ FormReady
    /\ edited # form
    /\ form' = edited
    /\ errText' = IF validates
                  THEN validateFieldText(fieldName, edited, errText)
                  ELSE errText
    /\ errClass' = IF validates
                   THEN validateFieldClass(fieldName, edited, errClass)
                   ELSE errClass
    /\ thrown' = FALSE
    /\ Spend
    /\ UNCHANGED <<now, tz, anim, valVars, dom, focus, toastVars, overlays, faq,
                   menu, router, cta>>

\* The name or the phone input loses the focus: its blur listener runs
\* validateField
Blur(fieldName) ==
    /\ FormReady
    /\ Has(fieldName)
    /\ errText' = validateFieldText(fieldName, getFormData, errText)
    /\ errClass' = validateFieldClass(fieldName, getFormData, errClass)
    /\ focus' = IF focus = fieldName THEN "none" ELSE focus
    /\ thrown' = FALSE
    /\ Spend
    /\ UNCHANGED <<now, tz, anim, valVars, dom, form, toastVars, overlays, faq,
                   menu, router, cta>>

\* closeModal: document.body.removeChild(overlay), which throws when the
\* overlay is no longer a child of the body
closeModal(o) == [o EXCEPT !.attached = FALSE]

\* A click on an overlay's Close button, or on its backdrop: closeModal, and
\* the click then reaches the document's listener
ModalCloseClick(i) ==
    /\ i \in 1..Len(overlays)
    /\ overlays[i].attached
    /\ overlays' = [overlays EXCEPT ![i] = closeModal(@)]
    /\ menu' = DocumentClickOutside(menu)
    /\ thrown' = FALSE
    /\ Spend
    /\ UNCHANGED <<now, tz, anim, valVars, dom, form, errText, errClass, focus,
                   toastVars, faq, router, cta>>

\* The Escape key: every handleEscape still registered runs closeModal and
\* then unregisters itself; where closeModal throws, the listener stays.  An
\* overlay that is detached and has no listener left is garbage, and leaves
\* the model.
EscapeKey ==
    /\ overlays # << >>
    /\ overlays' = SelectSeq(overlays,
                             LAMBDA o : ~(o.escape /\ closeModal(o) # o))
    /\ thrown' = \E i \in 1..Len(overlays) :
                     overlays[i].escape /\ ~overlays[i].attached
    /\ Spend
    /\ UNCHANGED <<now, tz, anim, valVars, dom, form, errText, errClass, focus,
                   toastVars, faq, menu, router, cta>>

----------------------------------------------------------------------------
(* The toast's events *)

ToastOptions == [message : {"Saved", "Failed"}, type : {"success", "error", "info"},
                 duration : {0, TickMs}]

\* ToastManager.show called with any options
Show ==
    /\ TimerRoom
    /\ \E options \in ToastOptions :
          /\ toast' = ShowToast(toast, options)
          /\ timers' = ShowTimers(timers, options)
    /\ thrown' = FALSE
    /\ Spend
    /\ UNCHANGED <<now, tz, anim, valVars, dom, formVars, faq, menu, router, cta>>

\* A click on the toast's close button
ToastCloseClick ==
    /\ Has("toastClose")
    /\ Has("toast") => toast.shown
    /\ toast' = HideToast(toast)
    /\ menu' = DocumentClickOutside(menu)
    /\ thrown' = FALSE
    /\ Spend
    /\ UNCHANGED <<now, tz, anim, valVars, dom, formVars, timers, faq, router, cta>>

\* Time passes, up to the next timer that is due
Tick ==
    /\ timers # << >>
    /\ \A i \in 1..Len(timers) : timers[i] > 0
    /\ timers' = [i \in 1..Len(timers) |->
                     IF timers[i] > TickMs THEN timers[i] - TickMs ELSE 0]
    /\ thrown' = FALSE
    /\ Spend
    /\ UNCHANGED <<now, tz, anim, valVars, dom, formVars, toast, faq, menu, router,
                   cta>>

\* A timer whose delay has passed runs its callback, hide
TimerFire ==
    /\ \E i \in 1..Len(timers) :
          /\ timers[i] = 0
          /\ timers' = RemoveAt(timers, i)
    /\ toast' = HideToast(toast)
    /\ thrown' = FALSE
    /\ Spend
    /\ UNCHANGED <<now, tz, anim, valVars, dom, formVars, faq, menu, router, cta>>

----------------------------------------------------------------------------
(* FAQAccordion *)

toggleFAQ_KeepOthers(f, button) ==
    IF button \notin dom.answers THEN f
    ELSE [f EXCEPT ![button] =
             IF f[button].expanded
             THEN [expanded |-> FALSE, maxHeight |-> "0"]
             ELSE [expanded |-> TRUE, maxHeight |-> "scrollHeight"]]

\* toggleFAQ for a click on item `button`: nothing without its answer
\* element; else every other button is collapsed (its answer too, where it
\* has one) and this one is toggled
toggleFAQ(f, button) ==
    IF button \notin dom.answers THEN f
    ELSE [other \in FaqItems |->
            IF other # button
            THEN [expanded |-> FALSE,
                  maxHeight |-> IF other \in dom.answers THEN "0"
                                ELSE f[other].maxHeight]
            ELSE IF f[button].expanded
                 THEN [expanded |-> FALSE, maxHeight |-> "0"]
                 ELSE [expanded |-> TRUE, maxHeight |-> "scrollHeight"]]

\* A click on a question (or Enter / Space on it, which the keyboard handler
\* turns into a click); the click then reaches the document's listener
FaqClick(button) ==
    /\ faq' = toggleFAQ(faq, button)
    /\ menu' = DocumentClickOutside(menu)
    /\ thrown' = FALSE
    /\ Spend
    /\ UNCHANGED <<now, tz, anim, valVars, dom, formVars, toastVars, router, cta>>

----------------------------------------------------------------------------
(* Router *)

MaxHistory == 2       \* history entries pushed in one run

\* updateActiveNavLink: the links whose href is '#' + activeId
updateActiveNavLink(activeId) ==
    {link \in NavLinks : link.hash /\ link.target = activeId}

scrollToSection_AddOnly(r, sectionId) ==
    IF sectionId \in dom.sections
    THEN [r EXCEPT !.scrollTo = sectionId,
                   !.active = @ \cup updateActiveNavLink(sectionId)]
    ELSE r

\* scrollToSection: scroll to the section and mark its links, if it exists
scrollToSection(r, sectionId) ==
    IF sectionId \in dom.sections
    THEN [r EXCEPT !.scrollTo = sectionId,
                   !.active = updateActiveNavLink(sectionId)]
    ELSE r

\* navigateToSection: history.pushState, then scrollToSection
navigateToSection(r, sectionId) ==
    scrollToSection([r EXCEPT !.hash = sectionId, !.history = @ + 1],
                    sectionId)

\* handleNavClick
handleNavClick(r, link) ==
    IF link.hash THEN navigateToSection(r, link.target) ELSE r

\* handleHashChange
handleHashChange(r) == IF r.hash # "" THEN scrollToSection(r, r.hash) ELSE r

\* A click on a nav link: the router's listener and, for a link inside the
\* menu, the menu's; the links are the menu's children wherever the page has
\* a menu, so the document's listener sees a click inside the menu
NavLinkClick(link) ==
    /\ link.hash => router.history < MaxHistory
    /\ router' = handleNavClick(router, link)
    /\ menu' = closeMenu(menu)
    /\ thrown' = FALSE
    /\ Spend
    /\ UNCHANGED <<now, tz, anim, valVars, dom, formVars, toastVars, faq, cta>>

\* The browser changes the hash (back, forward, an edited address)
HashChange(hash) ==
    /\ hash # router.hash
    /\ router' = handleHashChange([router EXCEPT !.hash = hash])
    /\ thrown' = FALSE
    /\ Spend
    /\ UNCHANGED <<now, tz, anim, valVars, dom, formVars, toastVars, faq, menu, cta>>

----------------------------------------------------------------------------
(* MobileNavigation's events *)

\* A click on the toggle button
NavToggleClick ==
    /\ Has("navToggle")
    /\ menu' = toggleMenu(menu)
    /\ thrown' = FALSE
    /\ Spend
    /\ UNCHANGED <<now, tz, anim, valVars, dom, formVars, toastVars, faq, router,
                   cta>>

\* A click anywhere outside the menu and the toggle button
OutsideClick ==
    /\ menu' = DocumentClickOutside(menu)
    /\ thrown' = FALSE
    /\ Spend
    /\ UNCHANGED <<now, tz, anim, valVars, dom, formVars, toastVars, faq, router,
                   cta>>

----------------------------------------------------------------------------
(* MobileCTAController *)

ViewportHeight == 800     \* window.innerHeight
PageHeight == 2000        \* document.body.offsetHeight
ScrollYs == {0, 500, 1100}
Widths == {768, 1024}

CtaReady == Has("mobileCta")

\* handleResize
handleResize(c) ==
    IF ~CtaReady THEN c
    ELSE [c EXCEPT !.display = IF c.width > 768 THEN "none" ELSE "grid"]

\* showCTA and hideCTA
showCTA(c) ==
    IF CtaReady /\ c.width <= 768
    THEN [c EXCEPT !.transform = "translateY(0)"] ELSE c
hideCTA(c) ==
    IF CtaReady /\ c.width <= 768
    THEN [c EXCEPT !.transform = "translateY(100%)"] ELSE c

handleScroll_NoBottom(c) ==
    LET currentScrollY == c.scrollY
        isScrollingDown == currentScrollY > c.lastScrollY
        moved == IF c.width <= 768
                 THEN IF isScrollingDown THEN hideCTA(c) ELSE showCTA(c)
                 ELSE c
    IN  [moved EXCEPT !.lastScrollY = currentScrollY]

\* handleScroll
handleScroll(c) ==
    LET currentScrollY == c.scrollY
        isScrollingDown == currentScrollY > c.lastScrollY
        isAtBottom == ViewportHeight + currentScrollY >= PageHeight - 100
        moved == IF c.width <= 768
                 THEN IF isScrollingDown /\ ~isAtBottom THEN hideCTA(c)
                      ELSE showCTA(c)
                 ELSE c
    IN  [moved EXCEPT !.lastScrollY = currentScrollY]

Scroll_ClosesMenu(y) ==
    /\ y # cta.scrollY
    /\ cta' = IF CtaReady THEN handleScroll([cta EXCEPT !.scrollY = y])
              ELSE [cta EXCEPT !.scrollY = y]
    /\ menu' = closeMenu(menu)
    /\ thrown' = FALSE
    /\ Spend
    /\ UNCHANGED <<now, tz, anim, valVars, dom, formVars, toastVars, faq,
                   router>>

\* The window scrolls; the listener exists only if the bar does
Scroll(y) ==
    /\ y # cta.scrollY
    /\ cta' = IF CtaReady THEN handleScroll([cta EXCEPT !.scrollY = y])
              ELSE [cta EXCEPT !.scrollY = y]
    /\ thrown' = FALSE
    /\ Spend
    /\ UNCHANGED <<now, tz, anim, valVars, dom, formVars, toastVars, faq, menu,
                   router>>

\* The window is resized
Resize(w) ==
    /\ w # cta.width
    /\ cta' = handleResize([cta EXCEPT !.width = w])
    /\ thrown' = FALSE
    /\ Spend
    /\ UNCHANGED <<now, tz, anim, valVars, dom, formVars, toastVars, faq, menu,
                   router>>

----------------------------------------------------------------------------
(* AnimationController *)

\* Elements matching '.service-card, .timing-card, .contact-item'
AnimatedElements == {"service-card", "contact-item"}

\* initializeAnimations: every card is observed, its animation is what the
\* stylesheet gives
ObservedCards ==
    [e \in AnimatedElements |-> [observed |-> TRUE, animation |-> "css"]]

MaxEntries == 2       \* entries the observer delivers in one callback

\* What the observer may deliver in one callback: entries queued for cards
\* that were observed when they were queued, each intersecting or not, and
\* possibly several for one card
IntersectionEntries(a) ==
    UNION {[1..n -> [target : {e \in AnimatedElements : a[e].observed},
                     isIntersecting : BOOLEAN]] : n \in 1..MaxEntries}

handleEntry_KeepObserving(a, entry) ==
    IF entry.isIntersecting
    THEN [a EXCEPT ![entry.target].animation =
                       "fadeInUp 0.6s ease-out forwards"]
    ELSE a

\* The body of handleIntersection's forEach
handleEntry(a, entry) ==
    IF entry.isIntersecting
    THEN [a EXCEPT ![entry.target] =
                      [observed |-> FALSE,
                       animation |-> "fadeInUp 0.6s ease-out forwards"]]
    ELSE a

\* handleIntersection: the entries, one after the other
RECURSIVE handleIntersection(_, _)
handleIntersection(a, entries) ==
    IF entries = << >> THEN a
    ELSE handleIntersection(handleEntry(a, Head(entries)), Tail(entries))

\* The observer's callback runs with these entries
Intersection(entries) == anim' = handleIntersection(anim, entries)

Intersect ==
    /\ \E entries \in IntersectionEntries(anim) : Intersection(entries)
    /\ thrown' = FALSE
    /\ Spend
    /\ UNCHANGED <<now, tz, valVars, dom, formVars, toastVars, faq, menu,
                   router, cta>>

----------------------------------------------------------------------------
(* Initial states: the page once AayurcureApp.setup has run *)

\* The FAQ as the markup gives it: at most one item expanded
InitialFaqs ==
    {[i \in FaqItems |-> [expanded |-> (i = open), maxHeight |-> "css"]] :
        open \in 0..NumFaq}

CollapsedFaq == [i \in FaqItems |-> [expanded |-> FALSE, maxHeight |-> "css"]]

\* Router's constructor: initializeRouter handles the hash the page was
\* loaded with
LoadedRouter(hash) ==
    handleHashChange([hash |-> hash, history |-> 0, active |-> {},
                      scrollTo |-> "top"])

\* MobileCTAController's constructor: lastScrollY = 0, and handleResize once
LoadedCta(width) ==
    handleResize([lastScrollY |-> 0, scrollY |-> 0, width |-> width,
                  display |-> "css", transform |-> "css"])

InitControllers(doms, faqs, hashes, widths, budget) ==
    /\ dom \in doms
    /\ errText = [f \in FieldIds |-> ""]
    /\ errClass = [f \in FieldIds |-> FALSE]
    /\ focus = "none"
    /\ toast = NoToast
    /\ timers = << >>
    /\ overlays = << >>
    /\ thrown = FALSE
    /\ faq \in faqs
    /\ menu = [navMenu |-> FALSE, navToggle |-> FALSE]
    /\ \E hash \in hashes : router = LoadedRouter(hash)
    /\ \E width \in widths : cta = LoadedCta(width)
    /\ anim = ObservedCards
    /\ steps = budget

InitPage(doms, faqs, hashes, widths, budget) ==
    /\ form = FormDefaults
    /\ InitControllers(doms, faqs, hashes, widths, budget)

----------------------------------------------------------------------------
(* Specifications *)

\* The validators alone
InitValidate ==
    /\ InitClock
    /\ InitCalls
    /\ InitPage({FullDom}, {CollapsedFaq}, {""}, {768}, -1)

NextValidate ==
    \/ CallValidateName
    \/ CallValidatePhone
    \/ CallValidateDate

SpecValidate == InitValidate /\ [][NextValidate]_vars

\* The validators while time passes and the browser's zone changes: what
\* new Date() and setHours read differs from one call to the next
PassTime ==
    /\ \E t \in Nows \cup {n + 1440 : n \in Nows} :
          /\ t > now
          /\ now' = t
    /\ Spend
    /\ UNCHANGED <<tz, anim, valVars, dom, formVars, toastVars, thrown, faq, menu,
                   router, cta>>

ChangeZone ==
    /\ \E offset \in TzOffsets \ {tz} : tz' = offset
    /\ Spend
    /\ UNCHANGED <<now, anim, valVars, dom, formVars, toastVars, thrown, faq, menu,
                   router, cta>>

NextClock ==
    \/ CallValidateName
    \/ CallValidatePhone
    \/ CallValidateDate
    \/ PassTime
    \/ ChangeZone

SpecClock == InitValidate /\ [][NextClock]_vars

\* The phone field as the user types: every input event runs
\* formatPhoneInput on what the field then holds
PhoneTyped ==
    PhoneInputs
    \cup {Phone9876543210 \o s : s \in Strings(PhoneChars, MaxPhoneExtra)}
    \cup {s \o Phone9876543210 : s \in Strings(PhoneChars, MaxPhoneExtra)}

PhoneInput ==
    /\ FormReady
    /\ Has("phoneNumber")
    /\ \E value \in PhoneTyped :
          /\ call' = [fn |-> "formatPhoneInput", arg |-> value,
                      today |-> << >>]
          /\ ret' = formatPhoneInput(value)
          /\ form' = [form EXCEPT !.phoneNumber = formatPhoneInput(value)]
    /\ thrown' = FALSE
    /\ Spend
    /\ UNCHANGED <<now, tz, anim, dom, errText, errClass, focus, overlays,
                   toastVars, faq, menu, router, cta>>

InitPhone ==
    /\ now = NowDay * 1440 + 720
    /\ tz = 330
    /\ InitCalls
    /\ InitPage({FullDom}, {CollapsedFaq}, {""}, {768}, -1)

NextPhone ==
    \/ PhoneInput
    \/ Blur("phoneNumber")

SpecPhone == InitPhone /\ [][NextPhone]_vars

\* The mobile menu, on every page tried
InitMenu ==
    /\ now = NowDay * 1440 + 720
    /\ tz = 330
    /\ InitCalls
    /\ InitPage(DomChoices, {CollapsedFaq}, {"", "about"}, {768}, -1)

NextMenu ==
    \/ NavToggleClick
    \/ \E link \in NavLinks : NavLinkClick(link)
    \/ OutsideClick

SpecMenu == InitMenu /\ [][NextMenu]_vars

\* The router, on every page tried
InitRouter ==
    /\ now = NowDay * 1440 + 720
    /\ tz = 330
    /\ InitCalls
    /\ InitPage(DomChoices, {CollapsedFaq}, {"", "about"}, {768}, -1)

NextRouter ==
    \/ \E link \in NavLinks : NavLinkClick(link)
    \/ \E hash \in {""} \cup SectionIds : HashChange(hash)

SpecRouter == InitRouter /\ [][NextRouter]_vars

\* The call-to-action bar, on every page tried and at both widths
InitCta ==
    /\ now = NowDay * 1440 + 720
    /\ tz = 330
    /\ InitCalls
    /\ InitPage(DomChoices, {CollapsedFaq}, {""}, Widths, -1)

NextCta ==
    \/ \E y \in ScrollYs : Scroll(y)
    \/ \E w \in Widths : Resize(w)

SpecCta == InitCta /\ [][NextCta]_vars

\* The card animations, as the page is scrolled
InitAnimation ==
    /\ now = NowDay * 1440 + 720
    /\ tz = 330
    /\ InitCalls
    /\ InitPage(DomChoices, {CollapsedFaq}, {""}, Widths, -1)

NextAnimation ==
    \/ Intersect
    \/ \E y \in ScrollYs : Scroll(y)

SpecAnimation == InitAnimation /\ [][NextAnimation]_vars

\* The functions of a whole form record, each applied to the record the
\* form holds
FormRecords ==
    [patientName   : {<< >>, AshaRao, Jane123},
     phoneNumber   : {<< >>, Phone12345, Phone9876543210},
     serviceType   : {<< >>, SvcConsultation, SvcOther},
     preferredDate : {<< >>, << NowDay - 2 >>, << NowDay + 1 >>,
                      << NowDay + 5 >>},
     preferredTime : {<< >>, TimeMorning},
     message       : {<< >>, BlankMessage, KneePain}]

CallValidateForm ==
    /\ call' = [fn |-> "validateForm", arg |-> getFormData,
                today |-> <<now, tz>>]
    /\ ret' = validateForm(getFormData, now, tz)
    /\ Spend
    /\ UNCHANGED <<now, tz, anim, dom, formVars, toastVars, thrown, faq,
                   menu, router, cta>>

CallGenerateEmailContent ==
    /\ call' = [fn |-> "generateEmailContent", arg |-> getFormData,
                today |-> <<now, tz>>]
    /\ ret' = generateEmailContent(getFormData, tz)
    /\ Spend
    /\ UNCHANGED <<now, tz, anim, dom, formVars, toastVars, thrown, faq,
                   menu, router, cta>>

CallGenerateWhatsAppMessage ==
    /\ call' = [fn |-> "generateWhatsAppMessage", arg |-> getFormData,
                today |-> << >>]
    /\ ret' = generateWhatsAppMessage(getFormData)
    /\ Spend
    /\ UNCHANGED <<now, tz, anim, dom, formVars, toastVars, thrown, faq,
                   menu, router, cta>>

InitRecord ==
    /\ now = NowDay * 1440 + 720
    /\ tz \in TzOffsets
    /\ InitCalls
    /\ form \in FormRecords
    /\ InitControllers({FullDom}, {CollapsedFaq}, {""}, {768}, -1)

NextRecord ==
    \/ CallValidateForm
    \/ CallGenerateEmailContent
    \/ CallGenerateWhatsAppMessage

SpecRecord == InitRecord /\ [][NextRecord]_vars

\* The values typed into the form
FormValues ==
    [patientName   |-> {<< >>, AshaRao},
     phoneNumber   |-> {<< >>, Phone12345, Phone9876543210},
     serviceType   |-> {<< >>},
     preferredDate |-> {<< >>, << NowDay - 2 >>, << NowDay + 1 >>},
     preferredTime |-> {<< >>},
     message       |-> {<< >>}]

\* The appointment form with its toast and its overlay, on the full page
InitForm ==
    /\ now = NowDay * 1440 + 720
    /\ tz = 330
    /\ InitCalls
    /\ InitPage({FullDom}, {CollapsedFaq}, {""}, {768}, -1)

NextForm ==
    \/ \E f \in Fields : \E v \in FormValues[f] : EditField(f, v)
    \/ \E f \in {"patientName", "phoneNumber"} : Blur(f)
    \/ handleSubmit
    \/ \E i \in 1..MaxOverlays : ModalCloseClick(i)
    \/ EscapeKey
    \/ ToastCloseClick
    \/ Tick
    \/ TimerFire

SpecForm == InitForm /\ [][NextForm]_vars

\* The accordion and the mobile menu, on every page tried
InitFAQ ==
    /\ now = NowDay * 1440 + 720
    /\ tz = 330
    /\ InitCalls
    /\ InitPage(DomChoices, InitialFaqs, {""}, {768}, -1)

NextFAQ ==
    \/ \E button \in FaqItems : FaqClick(button)
    \/ NavToggleClick
    \/ OutsideClick

SpecFAQ == InitFAQ /\ [][NextFAQ]_vars

\* The toast alone.  Time passes and a timer that is due runs: the browser's
\* event loop guarantees both.
InitToast ==
    /\ now = NowDay * 1440 + 720
    /\ tz = 330
    /\ InitCalls
    /\ InitPage({FullDom, [FullDom EXCEPT !.ids = @ \ {"toastClose"}]},
                {CollapsedFaq}, {""}, {768}, -1)

NextToast ==
    \/ Show
    \/ ToastCloseClick
    \/ Tick
    \/ TimerFire

SpecToast ==
    /\ InitToast
    /\ [][NextToast]_vars
    /\ WF_vars(Tick)
    /\ WF_vars(TimerFire)

\* The whole page: every controller, on every page tried, for runs of at
\* most MaxEvents events
MaxEvents == 4

Init ==
    /\ now = NowDay * 1440 + 720
    /\ tz = 330
    /\ InitCalls
    /\ InitPage(DomChoices, {CollapsedFaq}, {"", "about"}, Widths, MaxEvents)

Next ==
    \/ \E f \in Fields : \E v \in FormValues[f] : EditField(f, v)
    \/ \E f \in {"patientName", "phoneNumber"} : Blur(f)
    \/ handleSubmit
    \/ \E i \in 1..MaxOverlays : ModalCloseClick(i)
    \/ EscapeKey
    \/ ToastCloseClick
    \/ Tick
    \/ TimerFire
    \/ \E button \in FaqItems : FaqClick(button)
    \/ \E link \in NavLinks : NavLinkClick(link)
    \/ \E hash \in {""} \cup SectionIds : HashChange(hash)
    \/ NavToggleClick
    \/ OutsideClick
    \/ \E y \in ScrollYs : Scroll(y)
    \/ \E w \in Widths : Resize(w)
    \/ Intersect

Spec == Init /\ [][Next]_vars

----------------------------------------------------------------------------
(* Properties of the validators, under SpecValidate *)

Min(S) == CHOOSE x \in S : \A y \in S : x <= y
Max(S) == CHOOSE x \in S : \A y \in S : x >= y

\* C4: validatePhone returns no error exactly for the strings whose digits,
\* the other characters left out, are ten and begin with 6, 7, 8 or 9; for a
\* string without a digit it returns the 'required' error, and for every
\* other string the 'valid 10-digit' error.
C4_PhoneRule ==
    call.fn = "validatePhone" =>
        LET s == call.arg
            at == {i \in 1..Len(s) : s[i] \in Digits}
        IN  ret = IF at = {} THEN "Phone number is required"
                  ELSE IF Cardinality(at) = 10
                          /\ s[Min(at)] \in {"6", "7", "8", "9"}
                       THEN ""
                  ELSE "Please enter a valid 10-digit Indian mobile number"

\* A phone with a separator in it (eleven characters, ten digits) passed
C4_Witness ==
    /\ call.fn = "validatePhone"
    /\ ret = ""
    /\ Len(call.arg) > 10

\* C5: validateDate returns no error for the empty input, the past-date
\* message for every date before today's calendar date, the by-appointment
\* message for every other date that falls on a Sunday, and no error for
\* every date left.  Today and the weekday are those of the user's calendar.
C5_DateRule ==
    call.fn = "validateDate" =>
        LET today == (now + tz) \div 1440
        IN  ret = IF call.arg = << >> THEN ""
                  ELSE IF call.arg[1] < today THEN "Please select a future date"
                  ELSE IF (call.arg[1] + 4) % 7 = 0
                       THEN "Sundays are by appointment only - please call to schedule"
                  ELSE ""

\* C6: validateName returns an error exactly when the name, trimmed, is
\* empty, is shorter than two characters, or holds a character that is no
\* ASCII letter, whitespace or period; "A" is too short, "Jane Doe" passes,
\* "Jane123" has invalid characters.
C6_NameRule ==
    call.fn = "validateName" =>
        LET s == call.arg
            solid == {i \in 1..Len(s) : s[i] \notin Whitespace}
            length == IF solid = {} THEN 0 ELSE Max(solid) - Min(solid) + 1
            allowed == Lower \cup Upper \cup Whitespace \cup {"."}
        IN  /\ ret # "" <=> \/ length = 0
                            \/ length < 2
                            \/ \E i \in 1..Len(s) : s[i] \notin allowed
            /\ s = << "A" >> => ret = "Name must be at least 2 characters"
            /\ s = JaneDoe => ret = ""
            /\ s = Jane123 =>
                   ret = "Name can only contain letters, spaces, and periods"

\* A one-letter name between spaces was refused as too short
C6_Witness ==
    /\ call.fn = "validateName"
    /\ call.arg = << " ", "a", " " >>
    /\ ret = "Name must be at least 2 characters"

----------------------------------------------------------------------------
(* Properties of the submission flow, under SpecForm (the full page) *)

\* What each validator says of the form's current values
FieldError(f) ==
    CASE f = "patientName"   -> validateName(form.patientName)
      [] f = "phoneNumber"   -> validatePhone(form.phoneNumber)
      [] f = "preferredDate" -> validateDate(form.preferredDate, now, tz)

Failing == {f \in FieldIds : FieldError(f) # ""}

StartsWith(s, prefix) ==
    Len(s) >= Len(prefix) /\ SubSeq(s, 1, Len(prefix)) = prefix

\* C1: a submit of values that all three validators accept adds one overlay
\* holding a wa.me link and a mailto link, each with the percent-encoded name
\* and phone the form held when it was submitted; the success notification is
\* shown, and the form is left with every field cleared.
C1_SubmitValid ==
    [][ (handleSubmit /\ Failing = {}) =>
          /\ Len(overlays') = Len(overlays) + 1
          /\ LET o == overlays'[Len(overlays')]
             IN  /\ o.attached
                 /\ StartsWith(o.whatsappLink, WhatsAppPrefix)
                 /\ StartsWith(o.emailLink, MailtoPrefix)
                 /\ \A link \in {o.whatsappLink, o.emailLink} :
                       /\ Contains(link, encodeURIComponent(form.patientName))
                       /\ Contains(link, encodeURIComponent(form.phoneNumber))
          /\ toast' = [shown |-> TRUE,
                       message |-> SuccessToast.message,
                       background |-> "var(--color-success)"]
          /\ \A f \in Fields : form'[f] = << >> ]_vars

\* "Asha Rao" and 9876543210 were submitted: the overlay is up, its links
\* hold Asha%20Rao, and the form is empty again
C1_Witness ==
    /\ Len(overlays) = 1
    /\ overlays[1].attached
    /\ Contains(overlays[1].whatsappLink,
                << "A", "s", "h", "a", "%", "2", "0", "R", "a", "o" >>)
    /\ Contains(overlays[1].emailLink, Phone9876543210)
    /\ toast.shown
    /\ toast.message = SuccessToast.message
    /\ form = FormDefaults

\* C2: a submit of values that some validator refuses shows, for every
\* failing field and for no other, the validator's message and the error
\* marking of its input, focuses the first failing field in the order
\* patientName, phoneNumber, preferredDate, and shows the error notification.
C2_SubmitInvalid ==
    [][ (handleSubmit /\ Failing # {}) =>
          /\ \A f \in FieldIds : /\ errText'[f] = FieldError(f)
                                 /\ errClass'[f] = (f \in Failing)
          /\ focus' = IF "patientName" \in Failing THEN "patientName"
                      ELSE IF "phoneNumber" \in Failing THEN "phoneNumber"
                      ELSE "preferredDate"
          /\ toast' = [shown |-> TRUE,
                       message |-> "Please fix the errors below",
                       background |-> "var(--color-error)"] ]_vars

\* Phone and date were both refused in one submit: both show their errors,
\* and the phone field, the first of them, has the focus
C2_Witness ==
    /\ errText.patientName = ""
    /\ errText.phoneNumber = "Please enter a valid 10-digit Indian mobile number"
    /\ errText.preferredDate = "Please select a future date"
    /\ errClass.phoneNumber /\ errClass.preferredDate
    /\ focus = "phoneNumber"
    /\ toast.shown
    /\ toast.message = "Please fix the errors below"

\* C3: a submit that fails validation adds no overlay (so no link) and
\* leaves the form's values as they were; an overlay appears only in a submit
\* whose values passed validation.
C3_NoLinksOnFailure ==
    [][ /\ (handleSubmit /\ Failing # {}) =>
              (overlays' = overlays /\ form' = form)
        /\ Len(overlays') > Len(overlays) =>
              (handleSubmit /\ Failing = {}) ]_vars

\* An empty name and the phone 12345 were submitted: both fields show their
\* errors, there is no overlay, and the phone is still in the form
C3_Witness ==
    /\ form.patientName = << >>
    /\ form.phoneNumber = Phone12345
    /\ errText.patientName = "Name is required"
    /\ errText.phoneNumber = "Please enter a valid 10-digit Indian mobile number"
    /\ focus = "patientName"
    /\ overlays = << >>

\* C7: right after any submit the fields that show an error text, and the
\* inputs that carry the error marking, are exactly the fields that fail on
\* the values submitted; after a successful submit there is none.
C7_NoStaleErrors ==
    [][ handleSubmit =>
          /\ {f \in FieldIds : errText'[f] # ""} = Failing
          /\ {f \in FieldIds : errClass'[f]} = Failing ]_vars

\* A submit went through and left no error on display although the form,
\* emptied by it, would now fail
C7_Witness ==
    /\ overlays # << >>
    /\ form = FormDefaults
    /\ \A f \in FieldIds : errText[f] = "" /\ ~errClass[f]
    /\ toast.message = SuccessToast.message

----------------------------------------------------------------------------
(* Properties of the accordion, under SpecFAQ *)

Expanded(f) == {i \in FaqItems : f[i].expanded}

\* C8: at most one item is expanded, in every state; a click on a collapsed
\* item (one that has its answer element) expands it and leaves every other
\* item collapsed, and a click on the expanded item leaves none expanded.
C8_OneExpanded ==
    /\ [](Cardinality(Expanded(faq)) <= 1)
    /\ [][ \A button \in dom.answers :
             FaqClick(button) =>
                Expanded(faq') = IF faq[button].expanded THEN {}
                                 ELSE {button} ]_vars

\* Item 2 was opened while item 1 was open: item 1 is collapsed again
C8_Witness ==
    /\ Expanded(faq) = {2}
    /\ faq[2].maxHeight = "scrollHeight"
    /\ faq[1].maxHeight = "0"

----------------------------------------------------------------------------
(* Properties of the toast, under SpecToast *)

\* C9: a toast that is shown always has an auto-hide timer pending, and is
\* hidden in the end, whether or not the user dismisses it.
C9_EventuallyHidden ==
    /\ [](toast.shown => timers # << >>)
    /\ toast.shown ~> ~toast.shown

\* On a page without the close button a toast was shown and is hidden again
C9_Witness ==
    /\ ~Has("toastClose")
    /\ toast.message = "Saved"
    /\ ~toast.shown
    /\ timers = << >>

----------------------------------------------------------------------------
(* Properties of the whole page, under Spec *)

\* C10: whatever elements the page lacks, no event raises an error, and a
\* controller whose element is missing changes nothing: no toast without
\* the toast elements, no form effect without the form, no menu change
\* without the menu or its button, no change to the bar without the bar, no
\* change to the accordion by a click on an item without answer, and no
\* change by the router for a target section that does not exist.
C10_MissingElementsNoOp ==
    [][ /\ ~thrown'
        /\ ~ToastReady => UNCHANGED <<toast, timers>>
        /\ ~FormReady => UNCHANGED formVars
        /\ ~NavReady => UNCHANGED menu
        /\ ~CtaReady => /\ cta'.display = cta.display
                        /\ cta'.transform = cta.transform
                        /\ cta'.lastScrollY = cta.lastScrollY
        /\ \A button \in FaqItems \ dom.answers :
              FaqClick(button) => UNCHANGED faq
        /\ \A link \in NavLinks :
              (NavLinkClick(link) /\ link.target \notin dom.sections) =>
                  UNCHANGED router
        /\ \A hash \in SectionIds \ dom.sections :
              HashChange(hash) => router' = [router EXCEPT !.hash = hash]
      ]_vars

----------------------------------------------------------------------------
(* The validators and the clock, under SpecClock *)

ValidatorResults ==
    {"", "Name is required", "Name must be at least 2 characters",
     "Name can only contain letters, spaces, and periods",
     "Phone number is required",
     "Please enter a valid 10-digit Indian mobile number",
     "Please select a future date",
     "Sundays are by appointment only - please call to schedule"}

----------------------------------------------------------------------------
(* The controllers side by side, under Spec *)

\* What each controller owns
accordionState == faq
menuState == menu
routerState == router
ctaState == <<cta.lastScrollY, cta.display, cta.transform>>
animationState == anim
formState == <<formVars, toastVars>>

----------------------------------------------------------------------------
(* The contact-options overlay, under SpecForm *)

\* C13: whatever close-button clicks, backdrop clicks and Escape presses
\* follow a successful submit, no close action raises an error by removing
\* an overlay that is already detached, and no Escape listener of a closed
\* overlay stays registered.
C13_OverlayClosedOnce ==
    /\ ~thrown
    /\ \A i \in 1..Len(overlays) : overlays[i].escape => overlays[i].attached

----------------------------------------------------------------------------
(* The toast's timers, under SpecToast *)

\* C14: a visible notification is hidden only by a click on the close button
\* or by its own timer, the one started last, once that timer's delay has
\* elapsed: the timer of an earlier notification never hides a later one.
C14_OwnTimerOnly ==
    [][(toast.shown /\ ~toast'.shown) =>
          \/ ToastCloseClick
          \/ /\ timers # << >>
             /\ timers[Len(timers)] = 0
             /\ timers' = SubSeq(timers, 1, Len(timers) - 1)]_vars

----------------------------------------------------------------------------
(* The calendar date in every zone, under SpecValidate *)

\* C15: in every zone validateDate judges the calendar date selected: the
\* current local calendar date is not rejected as past, and a date that is
\* not past gets the by-appointment message exactly when that calendar date
\* is a Sunday.
C15_CalendarDate ==
    (call.fn = "validateDate" /\ call.arg # << >>) =>
        LET selected == call.arg[1]
            localToday == (now + tz) \div 1440
            sunday == (selected + 4) % 7 = 0
            byAppointment ==
                "Sundays are by appointment only - please call to schedule"
        IN  /\ selected = localToday => ret # "Please select a future date"
            /\ ret = byAppointment => sunday
            /\ (selected > localToday /\ sunday) => ret = byAppointment

----------------------------------------------------------------------------
(* The functions of a form record, under SpecRecord *)

ErrorFields(errors) == {errors[i][1] : i \in 1..Len(errors)}

HasText(body, text) == Contains(body, encodeURIComponent(text))

\* Whether it has a line that starts with `label`
HasLine(body, label) == HasText(body, << "\n" >> \o label)

\* C17: both bodies always have the name line and the phone line; each has
\* its service, date and time line exactly when that field is not empty; the
\* email body has the additional-information block exactly when the message
\* is not blank once trimmed; the WhatsApp body never has the message, and
\* is the same whatever the message is.
C17_MessageLines ==
    /\ call.fn = "generateEmailContent" =>
          LET formData == call.arg IN
          /\ HasLine(ret, EmailNameLabel \o formData.patientName \o << "\n" >>)
          /\ HasLine(ret, EmailPhoneLabel \o formData.phoneNumber \o << "\n" >>)
          /\ HasLine(ret, EmailServiceLabel) <=> formData.serviceType # << >>
          /\ HasLine(ret, EmailDateLabel) <=> formData.preferredDate # << >>
          /\ HasLine(ret, EmailTimeLabel) <=> formData.preferredTime # << >>
          /\ HasText(ret, EmailInfoLabel) <=> trim(formData.message) # << >>
          /\ trim(formData.message) # << >> =>
                HasText(ret, EmailInfoLabel \o formData.message \o << "\n" >>)
    /\ call.fn = "generateWhatsAppMessage" =>
          LET formData == call.arg IN
          /\ HasLine(ret, WaNameLabel \o formData.patientName \o << "\n" >>)
          /\ HasLine(ret, WaPhoneLabel \o formData.phoneNumber \o << "\n" >>)
          /\ HasLine(ret, WaServiceLabel) <=> formData.serviceType # << >>
          /\ HasLine(ret, WaDateLabel) <=> formData.preferredDate # << >>
          /\ HasLine(ret, WaTimeLabel) <=> formData.preferredTime # << >>
          /\ trim(formData.message) # << >> =>
                ~HasText(ret, trim(formData.message))
          /\ ret = generateWhatsAppMessage([formData EXCEPT !.message = << >>])

\* The email body was composed for a record with a blank message and a
\* service but neither date nor time
C17_Witness ==
    /\ call.fn = "generateEmailContent"
    /\ call.arg.message = BlankMessage
    /\ call.arg.serviceType = SvcOther
    /\ call.arg.preferredDate = << >>
    /\ call.arg.preferredTime = << >>
    /\ HasLine(ret, EmailServiceLabel)
    /\ ~HasText(ret, EmailInfoLabel)

----------------------------------------------------------------------------
(* Real-time validation, under SpecForm *)

\* C18: a blur of the name or of the phone input, and a change of the date
\* input, set that field's error text to what its validator says of the
\* field's current value and its input's error marking to whether it fails;
\* the error displays of the other fields, the other form values, the toast
\* and the overlays stay as they are.
C18_ValidateFieldFrame ==
    [][ /\ \A f \in {"patientName", "phoneNumber"} :
              Blur(f) =>
                 /\ errText' = [errText EXCEPT ![f] = FieldError(f)]
                 /\ errClass' = [errClass EXCEPT ![f] = (FieldError(f) # "")]
                 /\ UNCHANGED <<form, toastVars, overlays>>
        /\ \A v \in FormValues.preferredDate :
              EditField("preferredDate", v) =>
                 /\ errText' = [errText EXCEPT
                                   !.preferredDate = validateDate(v, now, tz)]
                 /\ errClass' = [errClass EXCEPT
                                    !.preferredDate =
                                        (validateDate(v, now, tz) # "")]
                 /\ form' = [form EXCEPT !.preferredDate = v]
                 /\ UNCHANGED <<toastVars, overlays>>
      ]_vars

\* The date shows its error and the name, validated on blur, shows its own,
\* while the phone, which fails as well, shows none: no submit has happened
C18_Witness ==
    /\ errText.preferredDate = "Please select a future date"
    /\ errClass.preferredDate
    /\ errText.patientName = "Name is required"
    /\ errText.phoneNumber = ""
    /\ ~errClass.phoneNumber
    /\ validatePhone(form.phoneNumber) # ""
    /\ toast = NoToast

----------------------------------------------------------------------------
(* The phone field, under SpecPhone *)

\* The first n digits of s, in order
RECURSIVE FirstDigits(_, _)
FirstDigits(s, n) ==
    IF s = << >> \/ n = 0 THEN << >>
    ELSE IF Head(s) \in Digits
         THEN << Head(s) >> \o FirstDigits(Tail(s), n - 1)
    ELSE FirstDigits(Tail(s), n)

\* C19: after an input event on the phone field its value has digits only,
\* at most ten of them, and is the first ten digits, in order, of what the
\* field held; formatting that value again changes nothing.
C19_PhoneFormat ==
    call.fn = "formatPhoneInput" =>
        /\ form.phoneNumber = ret
        /\ \A i \in 1..Len(form.phoneNumber) : form.phoneNumber[i] \in Digits
        /\ Len(form.phoneNumber) <= 10
        /\ form.phoneNumber = FirstDigits(call.arg, 10)
        /\ formatPhoneInput(form.phoneNumber) = form.phoneNumber

\* The field held eleven digits and a separator, and now holds ten digits
C19_Witness ==
    /\ call.fn = "formatPhoneInput"
    /\ Len(stripNonDigits(call.arg)) > 10
    /\ \E i \in 1..Len(call.arg) : call.arg[i] = "-"
    /\ Len(form.phoneNumber) = 10

----------------------------------------------------------------------------
(* The mobile menu, under SpecMenu *)

\* C20: the menu and its toggle button are both active or both inactive, in
\* every state; where both elements exist a click on the toggle button flips
\* the two, and a click on a nav link or outside the menu and the button
\* leaves both inactive.
C20_MenuInStep ==
    /\ [](menu.navMenu = menu.navToggle)
    /\ [][ /\ (NavReady /\ NavToggleClick) =>
                 /\ menu'.navMenu = ~menu.navMenu
                 /\ menu'.navToggle = ~menu.navToggle
           /\ (NavReady /\ ((\E link \in NavLinks : NavLinkClick(link))
                           \/ OutsideClick)) =>
                 /\ ~menu'.navMenu
                 /\ ~menu'.navToggle
         ]_vars

\* The menu is open again after a nav-link click had closed it
C20_Witness ==
    /\ NavReady
    /\ menu.navMenu
    /\ menu.navToggle
    /\ router.history = MaxHistory

----------------------------------------------------------------------------
(* The router, under SpecRouter *)

\* The nav links whose href is '#' followed by id
LinksTo(id) == {link \in NavLinks : link.hash /\ link.target = id}

\* C21: in every state the links marked active are those whose href names
\* the section scrolled to last (none before any section was scrolled to);
\* a nav-link click or a hash change whose target section exists scrolls to
\* it, and one whose target section is missing leaves the scroll position
\* and the active links as they are.
C21_ActiveFollowsScroll ==
    /\ [](router.active = IF router.scrollTo = "top" THEN {}
                          ELSE LinksTo(router.scrollTo))
    /\ [][ /\ \A link \in NavLinks :
                 (NavLinkClick(link) /\ link.hash) =>
                     IF link.target \in dom.sections
                     THEN router'.scrollTo = link.target
                     ELSE /\ router'.scrollTo = router.scrollTo
                          /\ router'.active = router.active
           /\ \A hash \in SectionIds :
                 HashChange(hash) =>
                     IF hash \in dom.sections
                     THEN router'.scrollTo = hash
                     ELSE /\ router'.scrollTo = router.scrollTo
                          /\ router'.active = router.active
         ]_vars

\* The hash names a section the page lacks, while the section scrolled to
\* last, and its link, are another's
C21_Witness ==
    /\ router.hash \in SectionIds \ dom.sections
    /\ router.scrollTo \in dom.sections
    /\ router.active = LinksTo(router.scrollTo)
    /\ router.active # {}

\* C22: after a click on a nav link with an href '#id' the hash and the
\* active link agree; the click pushes a history entry and changes the hash
\* only if the section exists and is scrolled to, so a click on a link whose
\* section is missing changes neither.
C22_PushOnlyIfExists ==
    [][ \A link \in NavLinks :
           (NavLinkClick(link) /\ link.hash) =>
              /\ router'.active = LinksTo(router'.hash)
              /\ IF link.target \in dom.sections
                 THEN /\ router'.hash = link.target
                      /\ router'.history = router.history + 1
                      /\ router'.scrollTo = link.target
                 ELSE /\ router'.hash = router.hash
                      /\ router'.history = router.history
      ]_vars

----------------------------------------------------------------------------
(* The mobile call-to-action bar, under SpecCta *)

\* C23: where the bar exists, a scroll event at a width of at most 768
\* leaves it translated out of view exactly when the position grew since the
\* scroll event before and the page is not within 100 px of its bottom, and
\* into view otherwise; at a width above 768 a resize sets display to none
\* and a scroll leaves the transform alone; lastScrollY is the position the
\* latest scroll event saw.
C23_BarFollowsScroll ==
    /\ [](CtaReady => cta.lastScrollY = cta.scrollY)
    /\ [][ /\ \A y \in ScrollYs :
                 (CtaReady /\ Scroll(y)) =>
                     LET grew == y > cta.scrollY
                         nearBottom == ViewportHeight + y >= PageHeight - 100
                     IN  IF cta.width <= 768
                         THEN cta'.transform =
                                 IF grew /\ ~nearBottom
                                 THEN "translateY(100%)" ELSE "translateY(0)"
                         ELSE cta'.transform = cta.transform
           /\ \A w \in Widths :
                 (CtaReady /\ Resize(w) /\ w > 768) => cta'.display = "none"
         ]_vars

\* On a narrow window the page was scrolled down to its bottom, and the bar
\* is in view
C23_Witness ==
    /\ CtaReady
    /\ cta.width <= 768
    /\ ViewportHeight + cta.scrollY >= PageHeight - 100
    /\ cta.lastScrollY = cta.scrollY
    /\ cta.transform = "translateY(0)"

----------------------------------------------------------------------------
(* The card animations, under SpecAnimation *)

Animated == [observed |-> FALSE, animation |-> "fadeInUp 0.6s ease-out forwards"]

\* C24: a card's animation is set at most once: a callback sets it for the
\* cards that have an intersecting entry, which it unobserves in the same
\* step, and leaves every other card, also one with entries that are not
\* intersecting, unchanged and observed as before; a card is unobserved
\* exactly when its animation is set, and nothing changes it afterwards.
C24_AnimatedOnce ==
    /\ [](\A e \in AnimatedElements :
             anim[e].observed <=> anim[e].animation = "css")
    /\ [][\A e \in AnimatedElements : ~anim[e].observed => anim'[e] = anim[e]]_vars
    /\ [][\A entries \in IntersectionEntries(anim) :
             (Intersect /\ Intersection(entries)) =>
                 \A e \in AnimatedElements :
                    anim'[e] =
                       IF \E i \in 1..Len(entries) :
                             /\ entries[i].target = e
                             /\ entries[i].isIntersecting
                       THEN Animated ELSE anim[e]]_vars

\* One card is animated and no longer observed, the other is still observed
\* and as the stylesheet has it
C24_Witness ==
    \E e, other \in AnimatedElements :
        /\ anim[e] = Animated
        /\ anim[other] = [observed |-> TRUE, animation |-> "css"]

====
